---- MODULE Spec2Model ----
(***************************************************************************)
(* Model of the CSV dashboard: the upload component                         *)
(* (src/lib/components/FileUpload.svelte), the page                         *)
(* (src/routes/+page.svelte) and debounce (src/lib/utils.ts).               *)
(*                                                                          *)
(* A JavaScript string is a sequence of symbols.  A symbol is one character *)
(* (a delimiter, a whitespace character, a digit, a letter); the fixed      *)
(* column names of the page and a few data words are written as one symbol  *)
(* each, since no operation of the program looks inside them.               *)
(***************************************************************************)
EXTENDS Integers, Sequences, FiniteSets, TLC

VARIABLES
    \* FileUpload.svelte component state
    selectedFile, columns, csvData, isDragging, errorMessage,
    \* FileReader objects whose readAsText has not completed yet
    pending,
    \* dataLoaded events dispatched so far, and the detail of the last one
    dataLoadedCount, lastDetail,
    \* +page.svelte component state
    pageColumns, pageCsvData, hasData,
    selectedLocationId, selectedLocationName, selectedCharacteristicName,
    \* the handler that ran last, with its input
    last,
    \* parseCSVLine applied to one line on its own
    line, fields, linePc,
    \* debounce (src/lib/utils.ts): the clock, the wait of each debounced function, the
    \* timers set and not yet run, the timeout variable of each closure, and the
    \* calls made and the invocations of func so far
    now, wait, timers, timeout, calls, invoked,
    \* the Leaflet map of +page.svelte: the markers on the map of the map container,
    \* whether the container holds a map, the setTimeout(initializeMap, 100) timers
    \* not yet run, and the calls of initializeMap waiting for import('leaflet')
    markers, mapOnContainer, initTimers, importing

uploadVars == <<selectedFile, columns, csvData, isDragging, errorMessage>>
pageVars == <<pageColumns, pageCsvData, hasData,
              selectedLocationId, selectedLocationName, selectedCharacteristicName>>
eventVars == <<dataLoadedCount, lastDetail>>
lineVars == <<line, fields, linePc>>
debounceVars == <<now, wait, timers, timeout, calls, invoked>>
mapVars == <<markers, mapOnContainer, initTimers, importing>>
vars == <<uploadVars, pending, eventVars, pageVars, last, lineVars, debounceVars, mapVars>>

(***************************************************************************)
(* Bounds                                                                   *)
(***************************************************************************)
MaxLineLen == 6
MaxTextLen == 5
MaxReads == 2
MaxRows == 3
MaxWait == 2
MaxTime == 4
MaxCalls == 3

(***************************************************************************)
(* Strings                                                                  *)
(***************************************************************************)
QUOTE == "\""
COMMA == ","
LF == "\n"

\* the value of a missing property or array element
undefined == <<"<undefined>">>

\* JavaScript truthiness of a string-or-undefined value
Truthy(v) == v # undefined /\ v # <<>>

WhiteSpace == {" ", "\t", "\r", LF}

SetMin(S) == CHOOSE x \in S : \A y \in S : x <= y
SetMax(S) == CHOOSE x \in S : \A y \in S : x >= y

\* String.prototype.trim
trim(s) ==
    LET keep == {i \in 1..Len(s) : s[i] \notin WhiteSpace}
    IN  IF keep = {} THEN <<>> ELSE SubSeq(s, SetMin(keep), SetMax(keep))

\* String.prototype.endsWith
endsWith(s, suffix) ==
    /\ Len(suffix) <= Len(s)
    /\ SubSeq(s, Len(s) - Len(suffix) + 1, Len(s)) = suffix

\* String.prototype.split(sep) for a one-character separator
RECURSIVE splitFrom(_, _, _, _)
splitFrom(s, sep, i, cur) ==
    IF i > Len(s) THEN <<cur>>
    ELSE IF s[i] = sep THEN <<cur>> \o splitFrom(s, sep, i + 1, <<>>)
    ELSE splitFrom(s, sep, i + 1, Append(cur, s[i]))

split(s, sep) == splitFrom(s, sep, 1, <<>>)

(***************************************************************************)
(* parseCSVLine                                                             *)
(***************************************************************************)
\* a mutant of parseCSVChar: a comma ends the field inside quotes too
parseCSVChar_CommaAlways(st, char) ==
    IF char = QUOTE
    THEN [st EXCEPT !.inQuotes = ~st.inQuotes]
    ELSE IF char = COMMA
    THEN [st EXCEPT !.result = Append(st.result, trim(st.current)), !.current = <<>>]
    ELSE [st EXCEPT !.current = Append(st.current, char)]

\* the body of the for loop: one character
parseCSVChar(st, char) ==
    IF char = QUOTE
    THEN [st EXCEPT !.inQuotes = ~st.inQuotes]
    ELSE IF char = COMMA /\ ~st.inQuotes
    THEN [st EXCEPT !.result = Append(st.result, trim(st.current)), !.current = <<>>]
    ELSE [st EXCEPT !.current = Append(st.current, char)]

RECURSIVE parseCSVLoop(_, _, _)
parseCSVLoop(ln, i, st) ==
    IF i > Len(ln) THEN st ELSE parseCSVLoop(ln, i + 1, parseCSVChar(st, ln[i]))

\* a mutant of parseCSVLine: the last column is pushed only when it is not empty
parseCSVLine_DropEmptyLast(ln) ==
    LET st == parseCSVLoop(ln, 1, [result |-> <<>>, current |-> <<>>, inQuotes |-> FALSE])
    IN  IF trim(st.current) = <<>> THEN st.result
        ELSE Append(st.result, trim(st.current))

\* a mutant of parseCSVLine: a line that ends inside quotes gives no fields
parseCSVLine_RejectsUnbalanced(ln) ==
    LET st == parseCSVLoop(ln, 1, [result |-> <<>>, current |-> <<>>, inQuotes |-> FALSE])
    IN  IF st.inQuotes THEN <<>> ELSE Append(st.result, trim(st.current))

parseCSVLine(ln) ==
    LET st == parseCSVLoop(ln, 1, [result |-> <<>>, current |-> <<>>, inQuotes |-> FALSE])
    IN  Append(st.result, trim(st.current))

(***************************************************************************)
(* Numbers: parseFloat, isNaN, + and /                                      *)
(* The alphabet of the model has no ".", "e" or "E", so a numeric literal   *)
(* is an optional sign and decimal digits, or Infinity.                     *)
(***************************************************************************)
Digits == {"0", "1", "2", "3", "4", "5", "6", "7", "8", "9"}

DigitVal(c) ==
    CASE c = "0" -> 0 [] c = "1" -> 1 [] c = "2" -> 2 [] c = "3" -> 3 [] c = "4" -> 4
      [] c = "5" -> 5 [] c = "6" -> 6 [] c = "7" -> 7 [] c = "8" -> 8 [] c = "9" -> 9

NaN == [kind |-> "nan", val |-> 0]
Num(n) == [kind |-> "num", val |-> n]
Inf(sign) == [kind |-> "inf", val |-> sign]

isNaN(x) == x.kind = "nan"

\* the value of the longest run of digits of s that starts at i, and its length
RECURSIVE digitRun(_, _, _, _)
digitRun(s, i, acc, n) ==
    IF i <= Len(s) /\ s[i] \in Digits
    THEN digitRun(s, i + 1, 10 * acc + DigitVal(s[i]), n + 1)
    ELSE [val |-> acc, len |-> n]

\* a mutant of parseFloat: text that is not a number reads as zero
parseFloat_ZeroForText(v) ==
    IF v = undefined THEN Num(0)
    ELSE LET lead == {i \in 1..Len(v) : v[i] \notin WhiteSpace}
         IN  IF lead = {} THEN Num(0)
             ELSE LET run == digitRun(v, SetMin(lead), 0, 0)
                  IN  Num(run.val)

\* parseFloat of a string, or of undefined (read as the text "undefined")
parseFloat(v) ==
    IF v = undefined THEN NaN
    ELSE LET lead == {i \in 1..Len(v) : v[i] \notin WhiteSpace}
         IN  IF lead = {} THEN NaN
             ELSE LET b == SetMin(lead)
                      signed == v[b] \in {"+", "-"}
                      sign == IF v[b] = "-" THEN -1 ELSE 1
                      d == IF signed THEN b + 1 ELSE b
                      run == digitRun(v, d, 0, 0)
                  IN  IF d <= Len(v) /\ v[d] = "Infinity" THEN Inf(sign)
                      ELSE IF run.len = 0 THEN NaN
                      ELSE Num(sign * run.val)

\* a + b
numAdd(a, b) ==
    IF isNaN(a) \/ isNaN(b) THEN NaN
    ELSE IF a.kind = "inf" /\ b.kind = "inf" THEN (IF a.val = b.val THEN a ELSE NaN)
    ELSE IF a.kind = "inf" THEN a
    ELSE IF b.kind = "inf" THEN b
    ELSE Num(a.val + b.val)

Abs(n) == IF n < 0 THEN -n ELSE n

RECURSIVE Gcd(_, _)
Gcd(a, b) == IF b = 0 THEN a ELSE Gcd(b, a % b)

\* a / n for a count n >= 1: the quotient as a fraction in lowest terms
numDiv(a, n) ==
    IF a.kind = "num"
    THEN LET g == Gcd(Abs(a.val), n)
         IN  [kind |-> "num", num |-> a.val \div g, den |-> n \div g]
    ELSE [kind |-> a.kind, num |-> a.val, den |-> 1]

(***************************************************************************)
(* +page.svelte: derived values                                             *)
(***************************************************************************)
MonitoringLocationID == <<"MonitoringLocationID">>
MonitoringLocationName == <<"MonitoringLocationName">>
CharacteristicName == <<"CharacteristicName">>
ResultValue == <<"ResultValue">>
ResultUnit == <<"ResultUnit">>

\* Array.prototype.includes
includes(arr, x) == \E i \in 1..Len(arr) : arr[i] = x

\* Array.prototype.indexOf: the 0-based index of the first match, or -1
indexOf(arr, x) ==
    IF includes(arr, x) THEN SetMin({i \in 1..Len(arr) : arr[i] = x}) - 1 ELSE -1

\* row[index]
at(row, index) == IF index >= 0 /\ index < Len(row) THEN row[index + 1] ELSE undefined

\* an object as a function from its keys
emptyObject == [k \in {} |-> <<>>]

\* a mutant of locationNameReduce: the first name of an id is kept
RECURSIVE locationNameReduce_FirstWins(_, _, _)
locationNameReduce_FirstWins(rows, i, acc) ==
    IF i > Len(rows) THEN acc
    ELSE LET id == at(rows[i], indexOf(pageColumns, MonitoringLocationID))
             name == at(rows[i], indexOf(pageColumns, MonitoringLocationName))
         IN  locationNameReduce_FirstWins(rows, i + 1,
                 IF Truthy(id) /\ Truthy(name) /\ id \notin DOMAIN acc
                 THEN [k \in DOMAIN acc \cup {id} |-> IF k = id THEN name ELSE acc[k]]
                 ELSE acc)

RECURSIVE locationNameReduce(_, _, _)
locationNameReduce(rows, i, acc) ==
    IF i > Len(rows) THEN acc
    ELSE LET id == at(rows[i], indexOf(pageColumns, MonitoringLocationID))
             name == at(rows[i], indexOf(pageColumns, MonitoringLocationName))
         IN  locationNameReduce(rows, i + 1,
                 IF Truthy(id) /\ Truthy(name)
                 THEN [k \in DOMAIN acc \cup {id} |-> IF k = id THEN name ELSE acc[k]]
                 ELSE acc)

\* a mutant of locationNameIdMap: the rows are read from the upload component's table
locationNameIdMap_FromUpload ==
    IF hasData /\ includes(pageColumns, MonitoringLocationID)
               /\ includes(pageColumns, MonitoringLocationName)
    THEN locationNameReduce(csvData, 1, emptyObject)
    ELSE emptyObject

locationNameIdMap ==
    IF hasData /\ includes(pageColumns, MonitoringLocationID)
               /\ includes(pageColumns, MonitoringLocationName)
    THEN locationNameReduce(pageCsvData, 1, emptyObject)
    ELSE emptyObject

\* locationNameIdMap[key]
locationName(key) ==
    IF key \in DOMAIN locationNameIdMap THEN locationNameIdMap[key] ELSE undefined

\* new Set(csvData.map(...)): the values of the CharacteristicName column, each once,
\* in the order of their first row
RECURSIVE characteristicSet(_, _, _)
characteristicSet(rows, i, acc) ==
    IF i > Len(rows) THEN acc
    ELSE LET charIndex == indexOf(pageColumns, CharacteristicName)
             v == IF charIndex >= 0 THEN at(rows[i], charIndex) ELSE <<>>
         IN  characteristicSet(rows, i + 1, IF includes(acc, v) THEN acc ELSE Append(acc, v))

characteristicValues ==
    IF hasData /\ includes(pageColumns, CharacteristicName)
    THEN characteristicSet(pageCsvData, 1, <<>>)
    ELSE <<>>

\* the characters of a symbol: a data word is spelled out, a character is itself
Spelling(sym) ==
    CASE sym = "pH" -> <<"p", "H">>
      [] OTHER -> <<sym>>

\* the UTF-16 code unit of a character
CodeUnit(c) ==
    CASE c = " " -> 32 [] c \in Digits -> 48 + DigitVal(c)
      [] c = "B" -> 66 [] c = "H" -> 72 [] c = "T" -> 84
      [] c = "a" -> 97 [] c = "b" -> 98 [] c = "p" -> 112

\* the code units of a string
RECURSIVE codeUnits(_)
codeUnits(s) ==
    IF s = <<>> THEN <<>>
    ELSE [k \in 1..Len(Spelling(s[1])) |-> CodeUnit(Spelling(s[1])[k])] \o codeUnits(Tail(s))

\* x < y for two sequences of code units
RECURSIVE unitsLess(_, _)
unitsLess(x, y) ==
    IF y = <<>> THEN FALSE
    ELSE IF x = <<>> THEN TRUE
    ELSE IF x[1] # y[1] THEN x[1] < y[1]
    ELSE unitsLess(Tail(x), Tail(y))

\* the default comparison of Array.prototype.sort: undefined goes last, strings are
\* compared by code units
sortsBefore(x, y) ==
    IF x = undefined THEN FALSE
    ELSE IF y = undefined THEN TRUE
    ELSE unitsLess(codeUnits(x), codeUnits(y))

\* Array.prototype.sort without a comparator
RECURSIVE sort(_)
sort(arr) ==
    IF arr = <<>> THEN <<>>
    ELSE LET sorted == sort(SubSeq(arr, 1, Len(arr) - 1))
             x == arr[Len(arr)]
             before == SelectSeq(sorted, LAMBDA y : ~sortsBefore(x, y))
             after == SelectSeq(sorted, LAMBDA y : sortsBefore(x, y))
         IN  before \o <<x>> \o after

\* a mutant of characteristicNames: the values are not sorted
characteristicNames_Unsorted == characteristicValues

characteristicNames == sort(characteristicValues)

\* the columns of the map
MonitoringLocationLatitude == <<"MonitoringLocationLatitude">>
MonitoringLocationLongitude == <<"MonitoringLocationLongitude">>

\* a property name that is an array index ("0", "2", "10"): digits without a leading zero
isArrayIndex(key) ==
    /\ key # <<>>
    /\ \A k \in 1..Len(key) : key[k] \in Digits
    /\ Len(key) > 1 => key[1] # "0"

\* a mutant of uniqueLocationsForEach: a later row of an id replaces the entry
RECURSIVE uniqueLocationsForEach_LastWins(_, _, _, _)
uniqueLocationsForEach_LastWins(cols, rows, i, acc) ==
    IF i > Len(rows) THEN acc
    ELSE LET id == at(rows[i], indexOf(cols, MonitoringLocationID))
             name == at(rows[i], indexOf(cols, MonitoringLocationName))
             lat == parseFloat(at(rows[i], indexOf(cols, MonitoringLocationLatitude)))
             lng == parseFloat(at(rows[i], indexOf(cols, MonitoringLocationLongitude)))
             entry == [id |-> id, name |-> IF Truthy(name) THEN name ELSE id,
                       lat |-> lat, lng |-> lng]
             known == \E k \in 1..Len(acc) : acc[k].id = id
         IN  uniqueLocationsForEach_LastWins(cols, rows, i + 1,
                 IF Truthy(id) /\ ~isNaN(lat) /\ ~isNaN(lng)
                 THEN IF known
                      THEN [k \in 1..Len(acc) |-> IF acc[k].id = id THEN entry ELSE acc[k]]
                      ELSE Append(acc, entry)
                 ELSE acc)

\* csvData.forEach over uniqueLocations: the object as its entries in the order in
\* which their keys were created
RECURSIVE uniqueLocationsForEach(_, _, _, _)
uniqueLocationsForEach(cols, rows, i, acc) ==
    IF i > Len(rows) THEN acc
    ELSE LET id == at(rows[i], indexOf(cols, MonitoringLocationID))
             name == at(rows[i], indexOf(cols, MonitoringLocationName))
             lat == parseFloat(at(rows[i], indexOf(cols, MonitoringLocationLatitude)))
             lng == parseFloat(at(rows[i], indexOf(cols, MonitoringLocationLongitude)))
             known == \E k \in 1..Len(acc) : acc[k].id = id
         IN  uniqueLocationsForEach(cols, rows, i + 1,
                 IF Truthy(id) /\ ~isNaN(lat) /\ ~isNaN(lng) /\ ~known
                 THEN Append(acc, [id |-> id, name |-> IF Truthy(name) THEN name ELSE id,
                                   lat |-> lat, lng |-> lng])
                 ELSE acc)

\* Object.values: the values under the array-index keys in ascending numeric order, then
\* the values under the other keys in the order of their creation
ObjectValues(entries) ==
    LET isIndex(e) == isArrayIndex(e.id)
        isName(e) == ~isArrayIndex(e.id)
        indexed == SelectSeq(entries, isIndex)
        named == SelectSeq(entries, isName)
        keyOf(k) == digitRun(indexed[k].id, 1, 0, 0).val
        byKey == [k \in 1..Len(indexed) |->
                    indexed[CHOOSE j \in 1..Len(indexed) :
                        Cardinality({m \in 1..Len(indexed) : keyOf(m) < keyOf(j)}) = k - 1]]
    IN  byKey \o named

\* the list of monitoring locations of a table
monitoringLocationsOf(has, cols, rows) ==
    IF \/ ~has
       \/ ~includes(cols, MonitoringLocationID)
       \/ ~includes(cols, MonitoringLocationLatitude)
       \/ ~includes(cols, MonitoringLocationLongitude)
    THEN <<>>
    ELSE ObjectValues(uniqueLocationsForEach(cols, rows, 1, <<>>))

\* $: monitoringLocations
monitoringLocations == monitoringLocationsOf(hasData, pageColumns, pageCsvData)

\* a mutant of matchesSelection: the characteristic is not compared
matchesSelection_LocationOnly(row) ==
    LET locationId == at(row, indexOf(pageColumns, MonitoringLocationID))
        resultValue == at(row, indexOf(pageColumns, ResultValue))
    IN  /\ locationId = selectedLocationId
        /\ Truthy(resultValue)
        /\ ~isNaN(parseFloat(resultValue))

\* the filter callback of averageResultValue
matchesSelection(row) ==
    LET locationId == at(row, indexOf(pageColumns, MonitoringLocationID))
        characteristic == at(row, indexOf(pageColumns, CharacteristicName))
        resultValue == at(row, indexOf(pageColumns, ResultValue))
    IN  /\ locationId = selectedLocationId
        /\ characteristic = selectedCharacteristicName
        /\ Truthy(resultValue)
        /\ ~isNaN(parseFloat(resultValue))

\* matchingRows.reduce((acc, row) => acc + parseFloat(row[resultValueIndex]), 0)
RECURSIVE sumReduce(_, _, _)
sumReduce(rows, i, acc) ==
    IF i > Len(rows) THEN acc
    ELSE sumReduce(rows, i + 1,
             numAdd(acc, parseFloat(at(rows[i], indexOf(pageColumns, ResultValue)))))

\* averageResultValue = null
nullAggregate == [average |-> [kind |-> "null", num |-> 0, den |-> 1],
                  count |-> 0, unit |-> undefined]

\* a mutant of averageResultValue: an aggregate of zero rows instead of null when no
\* row passes the filter
averageResultValue_ZeroWhenEmpty ==
    IF ~hasData \/ ~Truthy(selectedLocationId) \/ ~Truthy(selectedCharacteristicName)
    THEN nullAggregate
    ELSE LET matchingRows == SelectSeq(pageCsvData, matchesSelection)
         IN  IF Len(matchingRows) = 0
             THEN [average |-> [kind |-> "num", num |-> 0, den |-> 1],
                   count |-> 0, unit |-> <<"N/A">>]
             ELSE [average |-> numDiv(sumReduce(matchingRows, 1, Num(0)), Len(matchingRows)),
                   count |-> Len(matchingRows),
                   unit |-> <<"N/A">>]

averageResultValue ==
    IF ~hasData \/ ~Truthy(selectedLocationId) \/ ~Truthy(selectedCharacteristicName)
    THEN nullAggregate
    ELSE IF \/ indexOf(pageColumns, MonitoringLocationID) = -1
            \/ indexOf(pageColumns, CharacteristicName) = -1
            \/ indexOf(pageColumns, ResultValue) = -1
    THEN nullAggregate
    ELSE LET matchingRows == SelectSeq(pageCsvData, matchesSelection)
         IN  IF Len(matchingRows) = 0 THEN nullAggregate
             ELSE LET sum == sumReduce(matchingRows, 1, Num(0))
                      unit == at(matchingRows[1], indexOf(pageColumns, ResultUnit))
                  IN  [average |-> numDiv(sum, Len(matchingRows)),
                       count |-> Len(matchingRows),
                       unit |-> IF Truthy(unit) THEN unit ELSE <<"N/A">>]

\* the dropdowns are rendered when data is loaded and the location map has a key
DropdownsShown == hasData /\ DOMAIN locationNameIdMap # {}

\* the map container is rendered, and bound by bind:this, inside the blocks of hasData,
\* of the location map having a key, and of monitoringLocations.length > 0
mapContainer == DropdownsShown /\ Len(monitoringLocations) > 0

\* Svelte's update after handleDataLoaded(detail).  The reactive statement of the map
\* runs with the container as bound before the blocks are rendered, and once more
\* when bind:this has bound a new container; each run that finds locations and a
\* container calls setTimeout(initializeMap, 100).  A container that is no longer
\* rendered is removed with its map and markers.
updateMap(detail) ==
    LET locations == monitoringLocationsOf(TRUE, detail.columns, detail.data)
        container == DOMAIN locationNameIdMap' # {} /\ Len(locations) > 0
    IN  /\ initTimers' = IF Len(locations) > 0 /\ (mapContainer \/ container)
                         THEN initTimers + 1
                         ELSE initTimers
        /\ IF mapContainer /\ ~container
           THEN markers' = {} /\ mapOnContainer' = FALSE
           ELSE UNCHANGED <<markers, mapOnContainer>>
        /\ UNCHANGED importing

(***************************************************************************)
(* FileUpload.svelte                                                        *)
(***************************************************************************)
\* selectedFile = null
null == [name |-> <<>>, type |-> "<null>", content |-> <<>>]

DotCsv == <<".", "c", "s", "v">>

\* the record of the handler that ran: its name, its file, and the location id
\* that was selected when it started
Did(op, file) == [op |-> op, file |-> file, selBefore |-> selectedLocationId]

RemoveAt(s, i) == SubSeq(s, 1, i - 1) \o SubSeq(s, i + 1, Len(s))

\* content.split('\n').filter((line) => line.trim())
nonEmptyLines(content) == SelectSeq(split(content, LF), LAMBDA l : trim(l) # <<>>)

\* a mutant of parseDocument: the header line is parsed again as the first data row
parseDocument_HeaderAsRow(content) ==
    LET lines == nonEmptyLines(content)
    IN  [columns |-> parseCSVLine(lines[1]),
         data |-> [i \in 1..Len(lines) |-> parseCSVLine(lines[i])]]

\* the columns and csvData that onload computes from a text with a non-blank line
parseDocument(content) ==
    LET lines == nonEmptyLines(content)
        rest == Tail(lines)
    IN  [columns |-> parseCSVLine(lines[1]),
         data |-> [i \in 1..Len(rest) |-> parseCSVLine(rest[i])]]

\* the type and extension test of processFile
rejects(file) == file.type # "text/csv" /\ ~endsWith(file.name, DotCsv)

\* a mutant of handleDataLoaded: the selections are kept
handleDataLoaded_KeepsSelection(detail) ==
    /\ pageColumns' = detail.columns
    /\ pageCsvData' = detail.data
    /\ hasData' = TRUE
    /\ UNCHANGED <<selectedLocationId, selectedLocationName, selectedCharacteristicName>>

\* the page's handler of the dataLoaded event
handleDataLoaded(detail) ==
    /\ pageColumns' = detail.columns
    /\ pageCsvData' = detail.data
    /\ hasData' = TRUE
    /\ selectedLocationId' = <<>>
    /\ selectedLocationName' = <<>>
    /\ selectedCharacteristicName' = <<>>

\* dispatch('dataLoaded', detail): the page's handler runs synchronously, and the page
\* is updated before any other handler runs
dispatch(detail) ==
    /\ dataLoadedCount' = dataLoadedCount + 1
    /\ lastDetail' = detail
    /\ handleDataLoaded(detail)
    /\ updateMap(detail)

\* a mutant of processFile: a rejected file is still stored and read
processFile_ReadsRejected(file) ==
    /\ errorMessage' = IF rejects(file) THEN "Please select a valid CSV file" ELSE ""
    /\ selectedFile' = file
    /\ pending' = Append(pending, file)

processFile(file) ==
    IF rejects(file)
    THEN /\ errorMessage' = "Please select a valid CSV file"
         /\ UNCHANGED <<selectedFile, pending>>
    ELSE /\ errorMessage' = ""
         /\ selectedFile' = file
         \* readCSVColumns: a new FileReader, readAsText(file)
         /\ pending' = Append(pending, file)

\* the number of reads a run starts is bounded
MayStart(file) == rejects(file) \/ Len(pending) + dataLoadedCount < MaxReads

HandleFileSelect(file) ==
    /\ MayStart(file)
    /\ processFile(file)
    /\ last' = Did("handleFileSelect", file)
    /\ UNCHANGED <<columns, csvData, isDragging, eventVars, pageVars, lineVars, debounceVars, mapVars>>

HandleDrop(file) ==
    /\ MayStart(file)
    /\ isDragging' = FALSE
    /\ processFile(file)
    /\ last' = Did("handleDrop", file)
    /\ UNCHANGED <<columns, csvData, eventVars, pageVars, lineVars, debounceVars, mapVars>>

HandleDragOver ==
    /\ isDragging' = TRUE
    /\ last' = Did("handleDragOver", null)
    /\ UNCHANGED <<selectedFile, columns, csvData, errorMessage, pending,
                   eventVars, pageVars, lineVars, debounceVars, mapVars>>

HandleDragLeave ==
    /\ isDragging' = FALSE
    /\ last' = Did("handleDragLeave", null)
    /\ UNCHANGED <<selectedFile, columns, csvData, errorMessage, pending,
                   eventVars, pageVars, lineVars, debounceVars, mapVars>>

\* a mutant of ReaderOnload: the event is dispatched for a text without lines too
ReaderOnload_AlwaysDispatch(i) ==
    LET file == pending[i]
        lines == nonEmptyLines(file.content)
        doc == IF Len(lines) > 0 THEN parseDocument(file.content)
               ELSE [columns |-> <<>>, data |-> <<>>]
    IN  /\ pending' = RemoveAt(pending, i)
        /\ last' = Did("onload", file)
        /\ columns' = doc.columns
        /\ csvData' = doc.data
        /\ dispatch(doc)
        /\ UNCHANGED <<selectedFile, isDragging, errorMessage, lineVars, debounceVars>>

\* a mutant of ReaderOnload: a read that completes after clearFile is dropped
ReaderOnload_DropsWhenCleared(i) ==
    LET file == pending[i]
        lines == nonEmptyLines(file.content)
    IN  /\ pending' = RemoveAt(pending, i)
        /\ last' = Did("onload", file)
        /\ IF Len(lines) > 0 /\ selectedFile # null
           THEN LET doc == parseDocument(file.content)
                IN  /\ columns' = doc.columns
                    /\ csvData' = doc.data
                    /\ dispatch(doc)
           ELSE UNCHANGED <<columns, csvData, eventVars, pageVars, mapVars>>
        /\ UNCHANGED <<selectedFile, isDragging, errorMessage, lineVars, debounceVars>>

\* reader.onload of the i-th reader still reading
ReaderOnload(i) ==
    LET file == pending[i]
        lines == nonEmptyLines(file.content)
    IN  /\ pending' = RemoveAt(pending, i)
        /\ last' = Did("onload", file)
        /\ IF Len(lines) > 0
           THEN LET doc == parseDocument(file.content)
                IN  /\ columns' = doc.columns
                    /\ csvData' = doc.data
                    /\ dispatch(doc)
           ELSE UNCHANGED <<columns, csvData, eventVars, pageVars, mapVars>>
        /\ UNCHANGED <<selectedFile, isDragging, errorMessage, lineVars, debounceVars>>

\* reader.onerror of the i-th reader still reading
ReaderOnerror(i) ==
    /\ pending' = RemoveAt(pending, i)
    /\ last' = Did("onerror", pending[i])
    /\ errorMessage' = "Error reading file"
    /\ UNCHANGED <<selectedFile, columns, csvData, isDragging,
                   eventVars, pageVars, lineVars, debounceVars, mapVars>>

\* {#if selectedFile && columns.length > 0}: the file card is rendered
FileCardShown == selectedFile # null /\ Len(columns) > 0

\* a mutant of ClearFile: the error message is left as it is
ClearFile_KeepsMessage ==
    /\ selectedFile # null /\ Len(columns) > 0
    /\ selectedFile' = null
    /\ columns' = <<>>
    /\ csvData' = <<>>
    /\ last' = Did("clearFile", null)
    /\ UNCHANGED <<errorMessage, isDragging, pending, eventVars, pageVars, lineVars,
                   debounceVars, mapVars>>

\* the clear button, rendered inside the file card
ClearFile ==
    /\ selectedFile # null /\ Len(columns) > 0
    /\ selectedFile' = null
    /\ columns' = <<>>
    /\ csvData' = <<>>
    /\ errorMessage' = ""
    /\ last' = Did("clearFile", null)
    /\ UNCHANGED <<isDragging, pending, eventVars, pageVars, lineVars, debounceVars, mapVars>>

(***************************************************************************)
(* +page.svelte: handlers                                                   *)
(***************************************************************************)
\* the option values of the location dropdown
LocationOptions == {<<>>} \cup DOMAIN locationNameIdMap

\* the option values of the characteristic dropdown
CharacteristicOptions ==
    {<<>>} \cup ({characteristicValues[i] : i \in 1..Len(characteristicValues)} \ {undefined})

HandleLocationIdChange(value) ==
    /\ DropdownsShown
    /\ value \in LocationOptions
    /\ selectedLocationId' = value
    /\ selectedLocationName' = locationName(value)
    /\ last' = Did("handleLocationIdChange", null)
    /\ UNCHANGED <<uploadVars, pending, eventVars, pageColumns, pageCsvData, hasData,
                   selectedCharacteristicName, lineVars, debounceVars, mapVars>>

HandleCharacteristicNameChange(value) ==
    /\ DropdownsShown
    /\ value \in CharacteristicOptions
    /\ selectedCharacteristicName' = value
    /\ last' = Did("handleCharacteristicNameChange", null)
    /\ UNCHANGED <<uploadVars, pending, eventVars, pageColumns, pageCsvData, hasData,
                   selectedLocationId, selectedLocationName, lineVars, debounceVars, mapVars>>

\* the {:else} block of the dropdowns inside {#if hasData}: the warning
\* 'Missing Required Columns' is rendered
MissingColumnsShown == hasData /\ DOMAIN locationNameIdMap = {}

\* a timer set by the reactive statement runs initializeMap, up to its await
InitializeMap ==
    /\ initTimers > 0
    /\ initTimers' = initTimers - 1
    /\ importing' = IF ~mapContainer \/ Len(monitoringLocations) = 0
                    THEN importing
                    ELSE importing + 1
    /\ last' = Did("initializeMap", null)
    /\ UNCHANGED <<uploadVars, pending, eventVars, pageVars, lineVars, debounceVars,
                   markers, mapOnContainer>>

\* import('leaflet') has resolved and initializeMap goes on with the container and
\* the locations of that moment.  L.map throws for a container that is missing or
\* that holds a map already; otherwise the map is made and every location gets a
\* marker with a click handler.
LeafletImported ==
    /\ importing > 0
    /\ importing' = importing - 1
    /\ IF mapContainer /\ ~mapOnContainer
       THEN /\ mapOnContainer' = TRUE
            /\ markers' = {monitoringLocations[p] : p \in 1..Len(monitoringLocations)}
       ELSE UNCHANGED <<markers, mapOnContainer>>
    /\ last' = Did("initializeMap", null)
    /\ UNCHANGED <<uploadVars, pending, eventVars, pageVars, lineVars, debounceVars,
                   initTimers>>

\* marker.on('click', ...) of the marker made for location
MarkerClick(location) ==
    /\ location \in markers
    /\ selectedLocationId' = location.id
    /\ selectedLocationName' = location.name
    /\ last' = Did("markerClick", null)
    /\ UNCHANGED <<uploadVars, pending, eventVars, pageColumns, pageCsvData, hasData,
                   selectedCharacteristicName, lineVars, debounceVars, mapVars>>

\* no table was loaded yet: no container, no map
InitMap ==
    /\ markers = {}
    /\ mapOnContainer = FALSE
    /\ initTimers = 0
    /\ importing = 0

\* a table has just been loaded into the empty page
InitMapLoaded ==
    /\ markers = {}
    /\ mapOnContainer = FALSE
    /\ initTimers = IF mapContainer THEN 1 ELSE 0
    /\ importing = 0

(***************************************************************************)
(* utils.ts: debounce                                                       *)
(* Two functions are wrapped, each by its own call of debounce; time is     *)
(* counted in units of the clock.  A callback runs in the unit in which its *)
(* delay has passed, before or after the calls made in that unit.           *)
(***************************************************************************)
Debounced == {1, 2}

Args == {"first", "second"}

\* the value of `timeout` before the first call
noTimer == 0

\* the id setTimeout returns: ids are never used twice
newTimerId == Len(calls[1]) + Len(calls[2]) + 1

\* clearTimeout(id) on the table of timers
clearTimeout(id) == {t \in timers : t.id # id}

\* a mutant of DebouncedCall: the timer of the previous call is not cleared
DebouncedCall_NoClear(d, args) ==
    /\ Len(calls[1]) + Len(calls[2]) < MaxCalls
    /\ timers' = timers \cup
                     {[id |-> newTimerId, fn |-> d, args |-> args, due |-> now + wait[d]]}
    /\ timeout' = [timeout EXCEPT ![d] = newTimerId]
    /\ calls' = [calls EXCEPT ![d] = Append(@, [at |-> now, args |-> args])]
    /\ UNCHANGED <<now, wait, invoked>>
    /\ UNCHANGED <<uploadVars, pending, eventVars, pageVars, last, lineVars, mapVars>>

\* a call of the function debounce returned for d
DebouncedCall(d, args) ==
    /\ Len(calls[1]) + Len(calls[2]) < MaxCalls
    /\ timers' = clearTimeout(timeout[d]) \cup
                     {[id |-> newTimerId, fn |-> d, args |-> args, due |-> now + wait[d]]}
    /\ timeout' = [timeout EXCEPT ![d] = newTimerId]
    /\ calls' = [calls EXCEPT ![d] = Append(@, [at |-> now, args |-> args])]
    /\ UNCHANGED <<now, wait, invoked>>
    /\ UNCHANGED <<uploadVars, pending, eventVars, pageVars, last, lineVars, mapVars>>

\* the callback of a timer runs: () => func(...args)
TimerFires(t) ==
    /\ t \in timers
    /\ t.due <= now
    /\ timers' = timers \ {t}
    /\ invoked' = [invoked EXCEPT ![t.fn] =
                      Append(@, [at |-> now, args |-> t.args, calls |-> Len(calls[t.fn])])]
    /\ UNCHANGED <<now, wait, timeout, calls>>
    /\ UNCHANGED <<uploadVars, pending, eventVars, pageVars, last, lineVars, mapVars>>

\* the clock advances, once the callbacks that are due have run
Tick ==
    /\ now < MaxTime
    /\ \A t \in timers : t.due > now
    /\ now' = now + 1
    /\ UNCHANGED <<wait, timers, timeout, calls, invoked>>
    /\ UNCHANGED <<uploadVars, pending, eventVars, pageVars, last, lineVars, mapVars>>

\* no function is debounced
InitDebounce ==
    /\ now = 0
    /\ wait = [d \in Debounced |-> 0]
    /\ timers = {}
    /\ timeout = [d \in Debounced |-> noTimer]
    /\ calls = [d \in Debounced |-> <<>>]
    /\ invoked = [d \in Debounced |-> <<>>]

(***************************************************************************)
(* Inputs: the files a user can pick                                        *)
(***************************************************************************)
\* Array.prototype.join
RECURSIVE join(_, _)
join(parts, sep) ==
    IF parts = <<>> THEN <<>>
    ELSE IF Len(parts) = 1 THEN parts[1]
    ELSE parts[1] \o <<sep>> \o join(Tail(parts), sep)

\* the text of a CSV file with the given header and rows
formatCSV(header, rows) ==
    join(<<join(header, COMMA)>> \o [i \in 1..Len(rows) |-> join(rows[i], COMMA)], LF)

\* every sequence over S of length at most n
SeqsUpTo(S, n) == UNION {[1..k -> S] : k \in 0..n}

ContentA ==
    formatCSV(<<MonitoringLocationID, MonitoringLocationName, CharacteristicName, ResultValue>>,
              << <<<<"L1">>, <<"N1">>, <<"pH">>, <<"7">>>>,
                 <<<<"L1">>, <<"N1">>, <<"T">>, <<"3">>>>,
                 <<<<"L2">>, <<"N2">>, <<"pH">>, <<"9">>>> >>)

ContentB ==
    formatCSV(<<MonitoringLocationID, MonitoringLocationName, CharacteristicName>>,
              << <<<<"L3">>, <<"N3">>, <<"T">>>> >>)

\* a table for the map: the ids 10 and 2 with coordinates
ContentC ==
    formatCSV(<<MonitoringLocationID, MonitoringLocationName,
                MonitoringLocationLatitude, MonitoringLocationLongitude>>,
              << <<<<"1", "0">>, <<"N1">>, <<"4">>, <<"5">>>>,
                 <<<<"2">>, <<"N2">>, <<"5">>, <<"4">>>> >>)

ContentBlank == <<" ", LF>>

NameCsv == <<"a", ".", "c", "s", "v">>
NameUpperCsv == <<"x", ".", "C", "S", "V">>
NameTxt == <<"x", ".", "t", "x", "t">>

File(n, t, c) == [name |-> n, type |-> t, content |-> c]

Files ==
    { File(NameCsv, "text/csv", ContentA),
      File(NameCsv, "", ContentB),
      File(NameCsv, "text/csv", ContentBlank),
      File(NameTxt, "text/csv", ContentC),
      File(NameUpperCsv, "", ContentA),
      File(NameTxt, "text/plain", ContentA),
      File(NameTxt, "", ContentB) }

noDetail == [columns |-> <<>>, data |-> <<>>]

(***************************************************************************)
(* The application                                                          *)
(***************************************************************************)
InitUpload ==
    /\ selectedFile = null
    /\ columns = <<>>
    /\ csvData = <<>>
    /\ isDragging = FALSE
    /\ errorMessage = ""

InitPage ==
    /\ pageColumns = <<>>
    /\ pageCsvData = <<>>
    /\ hasData = FALSE
    /\ selectedLocationId = <<>>
    /\ selectedLocationName = <<>>
    /\ selectedCharacteristicName = <<>>

InitLine ==
    /\ line = <<>>
    /\ fields = <<>>
    /\ linePc = "idle"

Init ==
    /\ InitUpload
    /\ pending = <<>>
    /\ dataLoadedCount = 0
    /\ lastDetail = noDetail
    /\ InitPage
    /\ last = Did("init", null)
    /\ InitLine
    /\ InitDebounce
    /\ InitMap

Next ==
    \/ \E file \in Files : HandleFileSelect(file)
    \/ \E file \in Files : HandleDrop(file)
    \/ HandleDragOver
    \/ HandleDragLeave
    \/ \E i \in 1..Len(pending) : ReaderOnload(i)
    \/ \E i \in 1..Len(pending) : ReaderOnerror(i)
    \/ ClearFile
    \/ \E value \in LocationOptions : HandleLocationIdChange(value)
    \/ \E value \in CharacteristicOptions : HandleCharacteristicNameChange(value)
    \/ InitializeMap
    \/ LeafletImported
    \/ \E location \in markers : MarkerClick(location)

Spec == Init /\ [][Next]_vars

(***************************************************************************)
(* parseCSVLine on its own: every line over the alphabet up to MaxLineLen,  *)
(* and the lines of the test suite and of the specification                 *)
(***************************************************************************)
LineAlphabet == {"a", COMMA, QUOTE, " "}

\* a,"b, c",d
QuotedExample == <<"a", COMMA, QUOTE, "b", COMMA, " ", "c", QUOTE, COMMA, "d">>

\* name,"age, years",city
QuotedHeader == <<"name", COMMA, QUOTE, "age", COMMA, " ", "years", QUOTE, COMMA, "city">>

Lines == SeqsUpTo(LineAlphabet, MaxLineLen) \cup {QuotedExample, QuotedHeader}

InitLineSpec ==
    /\ InitUpload
    /\ pending = <<>>
    /\ dataLoadedCount = 0
    /\ lastDetail = noDetail
    /\ InitPage
    /\ last = Did("init", null)
    /\ line \in Lines
    /\ fields = <<>>
    /\ linePc = "start"
    /\ InitDebounce
    /\ InitMap

ParseLine ==
    /\ linePc = "start"
    /\ fields' = parseCSVLine(line)
    /\ linePc' = "done"
    /\ UNCHANGED <<uploadVars, pending, eventVars, pageVars, last, line, debounceVars, mapVars>>

LineSpec == InitLineSpec /\ [][ParseLine]_vars

(***************************************************************************)
(* One read: a file of any text up to MaxTextLen has just been accepted     *)
(***************************************************************************)
TextAlphabet == {"a", COMMA, QUOTE, " ", LF}

Texts == SeqsUpTo(TextAlphabet, MaxTextLen)

InitReadSpec ==
    \E text \in Texts :
        LET file == File(NameCsv, "text/csv", text)
        IN  /\ selectedFile = file
            /\ columns = <<>>
            /\ csvData = <<>>
            /\ isDragging = FALSE
            /\ errorMessage = ""
            /\ pending = <<file>>
            /\ dataLoadedCount = 0
            /\ lastDetail = noDetail
            /\ InitPage
            /\ last = Did("handleFileSelect", file)
            /\ InitLine
            /\ InitDebounce
            /\ InitMap

NextReadSpec ==
    \/ \E i \in 1..Len(pending) : ReaderOnload(i)
    \/ \E i \in 1..Len(pending) : ReaderOnerror(i)

ReadSpec == InitReadSpec /\ [][NextReadSpec]_vars

(***************************************************************************)
(* The page with a table loaded: every table of up to MaxRows rows          *)
(***************************************************************************)
TableHeader == <<MonitoringLocationID, MonitoringLocationName, CharacteristicName, ResultValue>>

\* rows of two locations and two characteristics, with a numeric, a two-digit, a
\* non-numeric, a digit-then-letter and an empty ResultValue, and a row that is one
\* field short
TableRows ==
    { <<<<"L1">>, <<"N">>, <<"pH">>, <<"2">>>>,
      <<<<"L1">>, <<"N">>, <<"pH">>, <<"1", "3">>>>,
      <<<<"L1">>, <<"N">>, <<"pH">>, <<"x">>>>,
      <<<<"L1">>, <<"N">>, <<"pH">>, <<"2", "x">>>>,
      <<<<"L1">>, <<"N">>, <<"pH">>, <<>>>>,
      <<<<"L1">>, <<"N">>, <<"pH">>>>,
      <<<<"L1">>, <<"N">>, <<"T">>, <<"2">>>>,
      <<<<"L2">>, <<"N">>, <<"pH">>, <<"2">>>>,
      <<<<"L2">>, <<"N">>, <<"T">>, <<"2">>>> }

InitTableSpec ==
    \E rows \in SeqsUpTo(TableRows, MaxRows) :
        LET file == File(NameCsv, "text/csv", formatCSV(TableHeader, rows))
            doc == parseDocument(file.content)
        IN  /\ selectedFile = file
            /\ columns = doc.columns
            /\ csvData = doc.data
            /\ isDragging = FALSE
            /\ errorMessage = ""
            /\ pending = <<>>
            /\ dataLoadedCount = 1
            /\ lastDetail = doc
            /\ pageColumns = doc.columns
            /\ pageCsvData = doc.data
            /\ hasData = TRUE
            /\ selectedLocationId = <<>>
            /\ selectedLocationName = <<>>
            /\ selectedCharacteristicName = <<>>
            /\ last = Did("onload", file)
            /\ InitLine
            /\ InitDebounce
            /\ InitMapLoaded

NextTableSpec ==
    \/ \E value \in LocationOptions : HandleLocationIdChange(value)
    \/ \E value \in CharacteristicOptions : HandleCharacteristicNameChange(value)

TableSpec == InitTableSpec /\ [][NextTableSpec]_vars

(***************************************************************************)
(* The page with a table of locations loaded: every table of up to MaxRows  *)
(* rows, with and without the name and the id column                        *)
(***************************************************************************)
LocationHeaders ==
    { <<MonitoringLocationID, MonitoringLocationName,
        MonitoringLocationLatitude, MonitoringLocationLongitude>>,
      <<MonitoringLocationID, ResultUnit,
        MonitoringLocationLatitude, MonitoringLocationLongitude>>,
      <<ResultUnit, MonitoringLocationName,
        MonitoringLocationLatitude, MonitoringLocationLongitude>> }

\* rows of the ids 10, 2 and L1 and of no id, with two names and no name, with
\* coordinates that parse and that do not, a latitude of a digit and a letter, and a
\* row of one field
LocationRows ==
    { <<<<"1", "0">>, <<"N">>, <<"4">>, <<"5">>>>,
      <<<<"1", "0">>, <<"M">>, <<"5">>, <<"4">>>>,
      <<<<"1", "0">>, <<"N">>, <<"x">>, <<"5">>>>,
      <<<<"2">>, <<"N">>, <<"4">>, <<"5">>>>,
      <<<<"2">>, <<"M">>, <<"5">>, <<"x">>>>,
      <<<<"L1">>, <<>>, <<"5">>, <<"4">>>>,
      <<<<"L1">>, <<"N">>, <<"4", "x">>, <<"5">>>>,
      <<<<>>, <<"N">>, <<"4">>, <<"5">>>>,
      <<<<"2">>>> }

InitLocationSpec ==
    \E header \in LocationHeaders : \E rows \in SeqsUpTo(LocationRows, MaxRows) :
        LET file == File(NameCsv, "text/csv", formatCSV(header, rows))
            doc == parseDocument(file.content)
        IN  /\ selectedFile = file
            /\ columns = doc.columns
            /\ csvData = doc.data
            /\ isDragging = FALSE
            /\ errorMessage = ""
            /\ pending = <<>>
            /\ dataLoadedCount = 1
            /\ lastDetail = doc
            /\ pageColumns = doc.columns
            /\ pageCsvData = doc.data
            /\ hasData = TRUE
            /\ selectedLocationId = <<>>
            /\ selectedLocationName = <<>>
            /\ selectedCharacteristicName = <<>>
            /\ last = Did("onload", file)
            /\ InitLine
            /\ InitDebounce
            /\ InitMapLoaded

LocationSpec == InitLocationSpec /\ [][NextTableSpec]_vars

(***************************************************************************)
(* The page with a table of characteristics loaded, with and without the    *)
(* CharacteristicName column, and the page before any load                  *)
(***************************************************************************)
CharacteristicHeaders ==
    { <<MonitoringLocationID, MonitoringLocationName, CharacteristicName>>,
      <<MonitoringLocationID, MonitoringLocationName>> }

\* rows with the characteristics a, B, ab and b, with an empty one, and a row that has
\* no third field
CharacteristicRows ==
    { <<<<"L1">>, <<"N">>, <<"a">>>>,
      <<<<"L1">>, <<"N">>, <<"B">>>>,
      <<<<"L1">>, <<"N">>, <<"a", "b">>>>,
      <<<<"L1">>, <<"N">>, <<"b">>>>,
      <<<<"L1">>, <<"N">>, <<>>>>,
      <<<<"L1">>, <<"N">>>> }

InitCharacteristicSpec ==
    \/ Init
    \/ \E header \in CharacteristicHeaders :
       \E rows \in SeqsUpTo(CharacteristicRows, MaxRows) :
        LET file == File(NameCsv, "text/csv", formatCSV(header, rows))
            doc == parseDocument(file.content)
        IN  /\ selectedFile = file
            /\ columns = doc.columns
            /\ csvData = doc.data
            /\ isDragging = FALSE
            /\ errorMessage = ""
            /\ pending = <<>>
            /\ dataLoadedCount = 1
            /\ lastDetail = doc
            /\ pageColumns = doc.columns
            /\ pageCsvData = doc.data
            /\ hasData = TRUE
            /\ selectedLocationId = <<>>
            /\ selectedLocationName = <<>>
            /\ selectedCharacteristicName = <<>>
            /\ last = Did("onload", file)
            /\ InitLine
            /\ InitDebounce
            /\ InitMapLoaded

CharacteristicSpec == InitCharacteristicSpec /\ [][NextTableSpec]_vars

(***************************************************************************)
(* The page with its map: files of located tables are selected and read,    *)
(* the timers of the map run, and markers and dropdown options are picked   *)
(***************************************************************************)
MapHeader ==
    <<MonitoringLocationID, MonitoringLocationName,
      MonitoringLocationLatitude, MonitoringLocationLongitude>>

\* two located ids; one id with two names; an id without a name beside a named one;
\* one located id; a table without the name column; and the header alone
MapTables ==
    { formatCSV(MapHeader, << <<<<"1", "0">>, <<"N">>, <<"4">>, <<"5">>>>,
                              <<<<"2">>, <<"N">>, <<"4">>, <<"5">>>> >>),
      formatCSV(MapHeader, << <<<<"1", "0">>, <<"N">>, <<"4">>, <<"5">>>>,
                              <<<<"1", "0">>, <<"M">>, <<"5">>, <<"4">>>> >>),
      formatCSV(MapHeader, << <<<<"1", "0">>, <<"N">>, <<"4">>, <<"5">>>>,
                              <<<<"L1">>, <<>>, <<"5">>, <<"4">>>> >>),
      formatCSV(MapHeader, << <<<<"1", "0">>, <<"M">>, <<"5">>, <<"4">>>> >>),
      formatCSV(<<MonitoringLocationID, ResultUnit,
                  MonitoringLocationLatitude, MonitoringLocationLongitude>>,
                << <<<<"1", "0">>, <<"N">>, <<"4">>, <<"5">>>> >>),
      formatCSV(MapHeader, <<>>) }

MapFiles == {File(NameCsv, "text/csv", c) : c \in MapTables}

NextMapSpec ==
    \/ \E file \in MapFiles : HandleFileSelect(file)
    \/ \E i \in 1..Len(pending) : ReaderOnload(i)
    \/ InitializeMap
    \/ LeafletImported
    \/ \E location \in markers : MarkerClick(location)
    \/ \E value \in LocationOptions : HandleLocationIdChange(value)

MapSpec == Init /\ [][NextMapSpec]_vars

(***************************************************************************)
(* debounce on its own: two debounced functions with waits up to MaxWait,   *)
(* at most MaxCalls calls between them, until the clock shows MaxTime       *)
(***************************************************************************)
InitDebounceSpec ==
    /\ InitUpload
    /\ pending = <<>>
    /\ dataLoadedCount = 0
    /\ lastDetail = noDetail
    /\ InitPage
    /\ last = Did("init", null)
    /\ InitLine
    /\ now = 0
    /\ wait \in [Debounced -> 0..MaxWait]
    /\ timers = {}
    /\ timeout = [d \in Debounced |-> noTimer]
    /\ calls = [d \in Debounced |-> <<>>]
    /\ invoked = [d \in Debounced |-> <<>>]
    /\ InitMap

NextDebounceSpec ==
    \/ \E d \in Debounced : \E args \in Args : DebouncedCall(d, args)
    \/ \E t \in timers : TimerFires(t)
    \/ Tick

DebounceSpec == InitDebounceSpec /\ [][NextDebounceSpec]_vars

(***************************************************************************)
(* Properties                                                               *)
(***************************************************************************)
CountOf(s, c) == Cardinality({i \in 1..Len(s) : s[i] = c})

\* the k-th smallest element of a set of numbers
NthSmallest(S, k) == CHOOSE x \in S : Cardinality({y \in S : y < x}) = k - 1

\* the pieces of s between the positions in B, in order
PiecesBetween(s, B) ==
    LET n == Cardinality(B)
    IN  [k \in 1..(n + 1) |->
            SubSeq(s, IF k = 1 THEN 1 ELSE NthSmallest(B, k - 1) + 1,
                      IF k = n + 1 THEN Len(s) ELSE NthSmallest(B, k) - 1)]

\* the commas of s that have an even number of quotes to their left
TopLevelCommas(s) ==
    {i \in 1..Len(s) : s[i] = COMMA /\ CountOf(SubSeq(s, 1, i - 1), QUOTE) % 2 = 0}

\* the fields of a line: cut at the commas outside quotes, quotes removed, trimmed
ExpectedFields(s) ==
    LET pieces == PiecesBetween(s, TopLevelCommas(s))
    IN  [k \in 1..Len(pieces) |-> trim(SelectSeq(pieces[k], LAMBDA c : c # QUOTE))]

\* C1: for a line without a double quote parseCSVLine returns (number of commas + 1)
\* fields, the empty line and lines with leading, trailing or consecutive commas included
C1_UnquotedFieldCount ==
    linePc = "done" /\ CountOf(line, QUOTE) = 0
        => Len(fields) = CountOf(line, COMMA) + 1

C1_Witness ==
    /\ linePc = "done"
    /\ line = <<COMMA, COMMA, "a", COMMA>>
    /\ fields = << <<>>, <<>>, <<"a">>, <<>> >>

TextLines(t) == PiecesBetween(t, {i \in 1..Len(t) : t[i] = LF})

IsBlank(l) == \A i \in 1..Len(l) : l[i] \in WhiteSpace

\* the lines of a text that are not empty and not whitespace only, in order
NonBlankLines(t) == SelectSeq(TextLines(t), LAMBDA l : ~IsBlank(l))

\* the table of a text with a non-blank line: the first non-blank line parsed as the
\* header, every later non-blank line parsed as a row
ExpectedTable(t) ==
    LET nb == NonBlankLines(t)
    IN  [columns |-> parseCSVLine(nb[1]),
         data |-> [k \in 1..(Len(nb) - 1) |-> parseCSVLine(nb[k + 1])]]

\* C3: after a read completes on a text with a non-blank line, the headers are the parse
\* of the first non-blank line, the rows the parses of the later non-blank lines in
\* order, and there are (non-blank lines - 1) rows
C3_HeadersAndRows ==
    last.op = "onload" /\ Len(NonBlankLines(last.file.content)) >= 1 =>
        LET nb == NonBlankLines(last.file.content)
        IN  /\ columns = parseCSVLine(nb[1])
            /\ Len(csvData) = Len(nb) - 1
            /\ \A k \in 1..Len(csvData) : csvData[k] = parseCSVLine(nb[k + 1])

C3_Witness ==
    /\ last.op = "onload"
    /\ last.file.content = <<"a", LF, " ", LF, "a">>
    /\ columns = << <<"a">> >>
    /\ csvData = << << <<"a">> >> >>

\* C4: a read of a text without a non-blank line ends in an outcome the user can
\* observe (an error message, or an event), not in silence
C4_NoContentSignalled ==
    last.op = "onload" /\ Len(NonBlankLines(last.file.content)) = 0
        => errorMessage # "" \/ dataLoadedCount > 0

\* a step of reader.onload on a text with a non-blank line
LoadStep == last'.op = "onload" /\ Len(NonBlankLines(last'.file.content)) >= 1

\* C5: a read that completes on a text with a non-blank line fires exactly one
\* dataLoaded event, carrying the columns and rows parsed from that text; no other
\* step (a rejected file, a failed read, a read of blank text) fires one
C5_OneEventPerParse ==
    [][IF LoadStep
       THEN /\ dataLoadedCount' = dataLoadedCount + 1
            /\ lastDetail' = ExpectedTable(last'.file.content)
       ELSE /\ dataLoadedCount' = dataLoadedCount
            /\ lastDetail' = lastDetail]_vars

C5_Witness ==
    /\ last.op = "onload"
    /\ last.file.content = ContentB
    /\ dataLoadedCount = 2
    /\ lastDetail = [columns |-> <<MonitoringLocationID, MonitoringLocationName,
                                   CharacteristicName>>,
                     data |-> << <<<<"L3">>, <<"N3">>, <<"T">>>> >>]

\* String.prototype.toLowerCase on the letters of the file names
toLowerCase(s) ==
    [i \in 1..Len(s) |->
        CASE s[i] = "C" -> "c" [] s[i] = "S" -> "s" [] s[i] = "V" -> "v" [] OTHER -> s[i]]

\* a step of processFile, from either handler
ProcessedFile == last.op \in {"handleFileSelect", "handleDrop"}

\* C6: processFile accepts a file exactly when its type is text/csv or its name ends
\* in .csv whatever the case of the letters; every other file gets the message
\* 'Please select a valid CSV file'
C6_AcceptsCsvAnyCase ==
    ProcessedFile =>
        IF last.file.type = "text/csv" \/ endsWith(toLowerCase(last.file.name), DotCsv)
        THEN /\ selectedFile = last.file
             /\ errorMessage = ""
             /\ Len(pending) > 0 /\ pending[Len(pending)] = last.file
        ELSE errorMessage = "Please select a valid CSV file"

\* a step of processFile that ends with the rejection message
RejectStep ==
    /\ last'.op \in {"handleFileSelect", "handleDrop"}
    /\ errorMessage' = "Please select a valid CSV file"

\* C7: rejecting a file changes the error message only: selectedFile, the upload
\* component's columns and rows and the page's table, hasData and selections stay as
\* they were, no read is started and no dataLoaded event is fired
C7_RejectChangesOnlyMessage ==
    [][RejectStep =>
        /\ selectedFile' = selectedFile
        /\ columns' = columns
        /\ csvData' = csvData
        /\ pageVars' = pageVars
        /\ pending' = pending
        /\ dataLoadedCount' = dataLoadedCount]_vars

C7_Witness ==
    /\ last.op = "handleFileSelect"
    /\ errorMessage = "Please select a valid CSV file"
    /\ last.file.type = "text/plain"
    /\ selectedFile # null /\ selectedFile # last.file
    /\ Len(columns) > 0
    /\ hasData
    /\ Truthy(selectedLocationId)
    /\ Len(pending) > 0

\* C8: after the read of an accepted file failed, 'Error reading file' is shown and
\* the upload component holds no columns and no rows
C8_FailedReadLeavesNoTable ==
    last.op = "onerror" =>
        /\ errorMessage = "Error reading file"
        /\ columns = <<>>
        /\ csvData = <<>>

\* the selections of the page
noSelection ==
    /\ selectedLocationId = <<>>
    /\ selectedLocationName = <<>>
    /\ selectedCharacteristicName = <<>>

\* C9 as stated: once the read of the newly selected file has completed, the three
\* selections are the empty string and the page's columns and rows are those of that file
C9_SelectingResets ==
    last.op \in {"onload", "onerror"} /\ last.file = selectedFile /\ pending = <<>> =>
        /\ noSelection
        /\ Len(NonBlankLines(selectedFile.content)) >= 1
        /\ pageColumns = ExpectedTable(selectedFile.content).columns
        /\ pageCsvData = ExpectedTable(selectedFile.content).data

\* C9 amended: when the read of a selected file completes on a text with a non-blank
\* line, the three selections become the empty string whatever they were, and the
\* page's columns and rows are replaced together by those of that file; the selection
\* itself, a failed read and a read of blank text leave the page's table and selections
\* as they were
C9_LoadResets ==
    [][IF LoadStep
       THEN /\ selectedLocationId' = <<>>
            /\ selectedLocationName' = <<>>
            /\ selectedCharacteristicName' = <<>>
            /\ hasData'
            /\ pageColumns' = ExpectedTable(last'.file.content).columns
            /\ pageCsvData' = ExpectedTable(last'.file.content).data
       ELSE last'.op \in {"handleFileSelect", "handleDrop", "onload", "onerror"}
               => pageVars' = pageVars]_vars

C9_Witness ==
    /\ last.op = "onload"
    /\ last.selBefore = <<"L1">>
    /\ last.file.content = ContentB
    /\ noSelection
    /\ pageColumns = <<MonitoringLocationID, MonitoringLocationName, CharacteristicName>>
    /\ pageCsvData = << <<<<"L3">>, <<"N3">>, <<"T">>>> >>

\* the field of row i of the page's table under the first column of the given name
Cell(i, name) == at(pageCsvData[i], indexOf(pageColumns, name))

\* the rows of the page's table that have the selected location id and the selected
\* characteristic and a ResultValue that parses as a number
SelectedRows ==
    {i \in 1..Len(pageCsvData) :
        /\ Cell(i, MonitoringLocationID) = selectedLocationId
        /\ Cell(i, CharacteristicName) = selectedCharacteristicName
        /\ ~isNaN(parseFloat(Cell(i, ResultValue)))}

\* the sum of the parsed ResultValue of the rows in S
RECURSIVE SumOfValues(_)
SumOfValues(S) ==
    IF S = {} THEN 0
    ELSE LET i == CHOOSE x \in S : TRUE
         IN  parseFloat(Cell(i, ResultValue)).val + SumOfValues(S \ {i})

\* C10: with data loaded, both selections made and the three columns present, the
\* aggregate counts the rows that have the selected id and the selected characteristic
\* and a numeric ResultValue, and its average is the sum of their values over that
\* count; a row with only one of the two selections counts for nothing
C10_AverageOfMatchingRows ==
    /\ hasData
    /\ Truthy(selectedLocationId) /\ Truthy(selectedCharacteristicName)
    /\ includes(pageColumns, MonitoringLocationID)
    /\ includes(pageColumns, CharacteristicName)
    /\ includes(pageColumns, ResultValue)
    => LET n == Cardinality(SelectedRows)
           agg == averageResultValue
       IN  IF n = 0 THEN agg = nullAggregate
           ELSE /\ agg.count = n
                /\ agg.average.kind = "num"
                /\ agg.average.den > 0
                /\ agg.average.num * n = SumOfValues(SelectedRows) * agg.average.den

C10_Witness ==
    /\ selectedLocationId = <<"L1">>
    /\ selectedCharacteristicName = <<"pH">>
    /\ pageCsvData = << <<<<"L1">>, <<"N">>, <<"pH">>, <<"1", "3">>>>,
                        <<<<"L2">>, <<"N">>, <<"pH">>, <<"2">>>>,
                        <<<<"L1">>, <<"N">>, <<"pH">>, <<"2">>>> >>
    /\ averageResultValue.count = 2
    /\ averageResultValue.average = [kind |-> "num", num |-> 15, den |-> 2]

\* a text that is a number and nothing else: an optional sign and digits, with
\* whitespace around them at most
IsNumericText(v) ==
    /\ v # undefined
    /\ LET t == trim(v)
           d == IF t # <<>> /\ t[1] \in {"+", "-"} THEN Tail(t) ELSE t
       IN  d # <<>> /\ \A k \in 1..Len(d) : d[k] \in Digits

\* the number a numeric text denotes
RECURSIVE DecimalValue(_)
DecimalValue(t) ==
    IF t = <<>> THEN 0
    ELSE IF t[1] = "-" THEN -DecimalValue(Tail(t))
    ELSE IF t[1] = "+" THEN DecimalValue(Tail(t))
    ELSE 10 * DecimalValue(SubSeq(t, 1, Len(t) - 1)) + DigitVal(t[Len(t)])

\* the rows with the selected id and characteristic whose ResultValue is a number
NumericRows ==
    {i \in 1..Len(pageCsvData) :
        /\ Cell(i, MonitoringLocationID) = selectedLocationId
        /\ Cell(i, CharacteristicName) = selectedCharacteristicName
        /\ IsNumericText(Cell(i, ResultValue))}

RECURSIVE SumOfNumeric(_)
SumOfNumeric(S) ==
    IF S = {} THEN 0
    ELSE LET i == CHOOSE x \in S : TRUE
         IN  DecimalValue(trim(Cell(i, ResultValue))) + SumOfNumeric(S \ {i})

\* C11: a row whose ResultValue is empty, missing or text that is not a number adds
\* nothing to the count and nothing to the sum of the aggregate: the count is the number
\* of selected rows whose ResultValue is a number and the average is their sum over it
C11_NonNumericExcluded ==
    /\ hasData
    /\ Truthy(selectedLocationId) /\ Truthy(selectedCharacteristicName)
    /\ includes(pageColumns, MonitoringLocationID)
    /\ includes(pageColumns, CharacteristicName)
    /\ includes(pageColumns, ResultValue)
    => LET n == Cardinality(NumericRows)
           agg == averageResultValue
       IN  IF n = 0 THEN agg = nullAggregate
           ELSE /\ agg.count = n
                /\ agg.average.kind = "num"
                /\ agg.average.num * n = SumOfNumeric(NumericRows) * agg.average.den

\* C12: the aggregate is null exactly when no data is loaded, a selection is empty, one
\* of the three columns is missing or no row passes the filter; an aggregate that is
\* present counts at least one row, so its average never divides by zero
C12_NullIffNoMatch ==
    LET agg == averageResultValue
        nothing == \/ ~hasData
                   \/ selectedLocationId = <<>>
                   \/ selectedCharacteristicName = <<>>
                   \/ ~includes(pageColumns, MonitoringLocationID)
                   \/ ~includes(pageColumns, CharacteristicName)
                   \/ ~includes(pageColumns, ResultValue)
                   \/ SelectedRows = {}
    IN  /\ agg = nullAggregate <=> nothing
        /\ agg # nullAggregate =>
              /\ agg.count >= 1
              /\ agg.count = Cardinality(SelectedRows)
              /\ agg.average.kind # "null" /\ agg.average.den >= 1

\* both selections made, the three columns present, and no row of the pair
C12_Witness ==
    /\ hasData
    /\ selectedLocationId = <<"L2">>
    /\ selectedCharacteristicName = <<"T">>
    /\ includes(pageColumns, ResultValue)
    /\ SelectedRows = {}
    /\ averageResultValue = nullAggregate

\* row i can give a location: it has an id, and a latitude and a longitude that parse
HasCoordinates(i) ==
    /\ Cell(i, MonitoringLocationID) \notin {undefined, <<>>}
    /\ ~isNaN(parseFloat(Cell(i, MonitoringLocationLatitude)))
    /\ ~isNaN(parseFloat(Cell(i, MonitoringLocationLongitude)))

\* the rows of an id that can give a location
RowsWithCoordinates(id) ==
    {i \in 1..Len(pageCsvData) : Cell(i, MonitoringLocationID) = id /\ HasCoordinates(i)}

\* C13: the list of monitoring locations has at most one entry for an id, every id
\* with a row that has coordinates has its entry, and the entry carries the name (the
\* id when the row has no name) and the coordinates of the first such row of the id,
\* whatever the later rows of that id hold
C13_FirstRowWins ==
    LET locs == monitoringLocations
    IN  /\ \A p, q \in 1..Len(locs) : locs[p].id = locs[q].id => p = q
        /\ \A i \in 1..Len(pageCsvData) :
              HasCoordinates(i) /\ includes(pageColumns, MonitoringLocationID)
                  => \E p \in 1..Len(locs) : locs[p].id = Cell(i, MonitoringLocationID)
        /\ \A p \in 1..Len(locs) :
              /\ RowsWithCoordinates(locs[p].id) # {}
              /\ LET first == SetMin(RowsWithCoordinates(locs[p].id))
                     name == Cell(first, MonitoringLocationName)
                 IN  /\ locs[p].lat = parseFloat(Cell(first, MonitoringLocationLatitude))
                     /\ locs[p].lng = parseFloat(Cell(first, MonitoringLocationLongitude))
                     /\ locs[p].name = IF name \in {undefined, <<>>} THEN locs[p].id ELSE name

\* the first row of id 10 has no latitude, the second gives the entry, the third row of
\* the same id changes nothing
C13_Witness ==
    /\ pageColumns = <<MonitoringLocationID, MonitoringLocationName,
                       MonitoringLocationLatitude, MonitoringLocationLongitude>>
    /\ pageCsvData = << <<<<"1", "0">>, <<"N">>, <<"x">>, <<"5">>>>,
                        <<<<"1", "0">>, <<"M">>, <<"5">>, <<"4">>>>,
                        <<<<"1", "0">>, <<"N">>, <<"4">>, <<"5">>>> >>
    /\ monitoringLocations =
           << [id |-> <<"1", "0">>, name |-> <<"M">>, lat |-> Num(5), lng |-> Num(4)] >>
    /\ selectedLocationId = <<"1", "0">>

\* C14: the list of monitoring locations is in the order in which the ids first occur
\* in the rows (with coordinates), ids that are digit strings included
C14_FirstOccurrenceOrder ==
    LET locs == monitoringLocations
    IN  \A p, q \in 1..Len(locs) :
            p < q => SetMin(RowsWithCoordinates(locs[p].id))
                         < SetMin(RowsWithCoordinates(locs[q].id))

\* the rows that have the given id and a name
NamedRows(id) ==
    {i \in 1..Len(pageCsvData) :
        /\ Cell(i, MonitoringLocationID) = id
        /\ Cell(i, MonitoringLocationName) \notin {undefined, <<>>}}

\* C17: locationNameIdMap has a key for exactly the non-empty ids that have a row with
\* a name, and maps each to the name on the last such row; rows without an id or
\* without a name change nothing; without one of the two columns the map is empty
C17_LastNamedRowWins ==
    LET ids == {Cell(i, MonitoringLocationID) : i \in 1..Len(pageCsvData)}
                   \ {undefined, <<>>}
    IN  IF /\ hasData
           /\ includes(pageColumns, MonitoringLocationID)
           /\ includes(pageColumns, MonitoringLocationName)
        THEN /\ DOMAIN locationNameIdMap = {id \in ids : NamedRows(id) # {}}
             /\ \A id \in DOMAIN locationNameIdMap :
                   locationNameIdMap[id] = Cell(SetMax(NamedRows(id)), MonitoringLocationName)
        ELSE DOMAIN locationNameIdMap = {}

\* id 2 is named N, then M, then comes a row of id 2 without a name: the map says M
C17_Witness ==
    /\ pageColumns = <<MonitoringLocationID, MonitoringLocationName,
                       MonitoringLocationLatitude, MonitoringLocationLongitude>>
    /\ pageCsvData = << <<<<"2">>, <<"N">>, <<"4">>, <<"5">>>>,
                        <<<<"2">>, <<"M">>, <<"5">>, <<"x">>>>,
                        <<<<"2">>>> >>
    /\ DOMAIN locationNameIdMap = {<<"2">>}
    /\ selectedLocationId = <<"2">>
    /\ selectedLocationName = <<"M">>

\* a comes before b in the order of code units: a is a proper prefix of b, or at the
\* first place where they differ a has the smaller code unit
ComesBefore(a, b) ==
    LET x == codeUnits(a)
        y == codeUnits(b)
    IN  \E k \in 1..Len(y) :
            /\ k <= Len(x) + 1
            /\ SubSeq(x, 1, k - 1) = SubSeq(y, 1, k - 1)
            /\ k = Len(x) + 1 \/ x[k] < y[k]

C16_NoBlankNames ==
    \A k \in 1..Len(characteristicNames) :
        /\ characteristicNames[k] # undefined
        /\ trim(characteristicNames[k]) # <<>>

\* the four inputs of the derived values
DerivedInputs == <<pageColumns, pageCsvData, selectedLocationId, selectedCharacteristicName>>

\* the id-to-name map as a function of the table alone
MapOfTable ==
    LET ids == {Cell(i, MonitoringLocationID) : i \in 1..Len(pageCsvData)}
                   \ {undefined, <<>>}
        keys == IF /\ includes(pageColumns, MonitoringLocationID)
                   /\ includes(pageColumns, MonitoringLocationName)
                THEN {id \in ids : NamedRows(id) # {}} ELSE {}
    IN  [id \in keys |-> Cell(SetMax(NamedRows(id)), MonitoringLocationName)]

\* a list is the characteristic list of the table alone
IsNamesOfTable(names) ==
    IF includes(pageColumns, CharacteristicName)
    THEN /\ \A p, q \in 1..Len(names) : names[p] = names[q] => p = q
         /\ {names[k] : k \in 1..Len(names)}
                = {Cell(i, CharacteristicName) : i \in 1..Len(pageCsvData)}
         /\ \A p, q \in 1..Len(names) :
               p < q => \/ names[q] = undefined
                        \/ names[p] # undefined /\ ComesBefore(names[p], names[q])
    ELSE names = <<>>

\* a list is the location list of the table alone: one entry for each id that has a row
\* with coordinates, taken from the first such row, ids that are array indices first in
\* numeric order, the others after them in the order of their first rows
IsLocationsOfTable(locs) ==
    LET ids == IF /\ includes(pageColumns, MonitoringLocationID)
                  /\ includes(pageColumns, MonitoringLocationLatitude)
                  /\ includes(pageColumns, MonitoringLocationLongitude)
               THEN {Cell(i, MonitoringLocationID) :
                        i \in {j \in 1..Len(pageCsvData) : HasCoordinates(j)}}
               ELSE {}
        first(id) == SetMin(RowsWithCoordinates(id))
        key(id) == digitRun(id, 1, 0, 0).val
        name(i) == Cell(i, MonitoringLocationName)
    IN  /\ Len(locs) = Cardinality(ids)
        /\ {locs[p].id : p \in 1..Len(locs)} = ids
        /\ \A p \in 1..Len(locs) :
              locs[p] = [id |-> locs[p].id,
                         name |-> IF name(first(locs[p].id)) \in {undefined, <<>>}
                                  THEN locs[p].id ELSE name(first(locs[p].id)),
                         lat |-> parseFloat(Cell(first(locs[p].id), MonitoringLocationLatitude)),
                         lng |-> parseFloat(Cell(first(locs[p].id), MonitoringLocationLongitude))]
        /\ \A p, q \in 1..Len(locs) :
              p < q =>
                  IF isArrayIndex(locs[p].id) /\ isArrayIndex(locs[q].id)
                  THEN key(locs[p].id) < key(locs[q].id)
                  ELSE IF isArrayIndex(locs[p].id) # isArrayIndex(locs[q].id)
                  THEN isArrayIndex(locs[p].id)
                  ELSE first(locs[p].id) < first(locs[q].id)

\* an aggregate is the aggregate of the table and the two selections alone
IsAggregateOfTable(agg) ==
    IF /\ selectedLocationId # <<>> /\ selectedCharacteristicName # <<>>
       /\ includes(pageColumns, MonitoringLocationID)
       /\ includes(pageColumns, CharacteristicName)
       /\ includes(pageColumns, ResultValue)
       /\ SelectedRows # {}
    THEN LET n == Cardinality(SelectedRows)
             unit == Cell(SetMin(SelectedRows), ResultUnit)
         IN  /\ agg.count = n
             /\ agg.average.kind = "num" /\ agg.average.den > 0
             /\ Gcd(Abs(agg.average.num), agg.average.den) = 1
             /\ agg.average.num * n = SumOfValues(SelectedRows) * agg.average.den
             /\ agg.unit = IF unit \in {undefined, <<>>} THEN <<"N/A">> ELSE unit
    ELSE agg = nullAggregate

\* C18: in every state, whatever loads, clears, failed reads and selection changes led
\* to it, the four derived values are the values fixed by the page's columns and rows
\* and the two selections alone; two histories that end in the same table and
\* selections therefore end in the same derived values
C18_DerivedFromTableAndSelection ==
    /\ locationNameIdMap = MapOfTable
    /\ IsNamesOfTable(characteristicNames)
    /\ IsLocationsOfTable(monitoringLocations)
    /\ IsAggregateOfTable(averageResultValue)

\* the second load, two selections and a clear: the table and the selections are those
\* that one load and two selections give, and so is the aggregate
C18_Witness ==
    /\ dataLoadedCount = 2
    /\ selectedFile = null
    /\ last.op = "clearFile"
    /\ pageCsvData = ExpectedTable(ContentA).data
    /\ selectedLocationId = <<"L1">>
    /\ selectedCharacteristicName = <<"pH">>
    /\ averageResultValue.count = 1
    /\ averageResultValue.average = [kind |-> "num", num |-> 7, den |-> 1]
    /\ DOMAIN locationNameIdMap = {<<"L1">>, <<"L2">>}

\* C19: once every read has completed (all of them successfully), the table of the
\* upload component and of the page is that of the file selected last, also when the
\* read of an earlier selected file completes after it
C19_LatestSelectionWins ==
    /\ pending = <<>>
    /\ last.op = "onload"
    /\ errorMessage = ""
    /\ Len(NonBlankLines(selectedFile.content)) >= 1
    => /\ columns = ExpectedTable(selectedFile.content).columns
       /\ csvData = ExpectedTable(selectedFile.content).data
       /\ pageColumns = ExpectedTable(selectedFile.content).columns
       /\ pageCsvData = ExpectedTable(selectedFile.content).data

\* call k of d ends a burst: it is the last call so far, or the next call came wait or
\* more after it
EndsBurst(d, k) ==
    \/ k = Len(calls[d])
    \/ calls[d][k + 1].at - calls[d][k].at >= wait[d]

\* the invocations of func that ran when call k was the last call of d
InvocationsAfter(d, k) == {n \in 1..Len(invoked[d]) : invoked[d][n].calls = k}

\* C20: for each of the two debounced functions, a call that is followed by another in
\* less than wait causes no invocation; the call that ends a burst causes at most one,
\* with its own arguments and not before wait has passed since it, and exactly one once
\* no timer of that function is left; this holds whatever the other function does
C20_BurstInvokesOnce ==
    \A d \in Debounced :
        /\ \A n \in 1..Len(invoked[d]) : invoked[d][n].calls \in 1..Len(calls[d])
        /\ \A k \in 1..Len(calls[d]) :
              IF ~EndsBurst(d, k) THEN InvocationsAfter(d, k) = {}
              ELSE /\ Cardinality(InvocationsAfter(d, k)) <= 1
                   /\ \A n \in InvocationsAfter(d, k) :
                         /\ invoked[d][n].args = calls[d][k].args
                         /\ invoked[d][n].at >= calls[d][k].at + wait[d]
                   /\ k = Len(calls[d]) /\ (\A t \in timers : t.fn # d)
                         => Cardinality(InvocationsAfter(d, k)) = 1

\* two calls of the first function less than wait apart, then one invocation with the
\* arguments of the second call, while the timer of the other function is still set
C20_Witness ==
    /\ wait[1] = 2
    /\ Len(calls[1]) = 2
    /\ calls[1][1].args = "first" /\ calls[1][2].args = "second"
    /\ calls[1][2].at - calls[1][1].at = 1
    /\ Len(invoked[1]) = 1
    /\ invoked[1][1].args = "second"
    /\ invoked[1][1].at = calls[1][2].at + 2
    /\ Len(calls[2]) = 1
    /\ \E t \in timers : t.fn = 2

\* C21: after clearFile selectedFile is null, the upload component holds no columns and
\* no rows, the error message is empty and the file card is not shown: the four are as
\* in the initial state
C21_ClearedState ==
    last.op = "clearFile" =>
        /\ selectedFile = null
        /\ columns = <<>>
        /\ csvData = <<>>
        /\ errorMessage = ""
        /\ ~FileCardShown

\* a clear after a load, while the message of a rejected file was shown
C21_Witness ==
    /\ last.op = "clearFile"
    /\ selectedFile = null /\ columns = <<>> /\ csvData = <<>> /\ errorMessage = ""
    /\ dataLoadedCount = 1
    /\ hasData

\* the position of the last double quote of a line that has one
LastQuote(s) == SetMax({i \in 1..Len(s) : s[i] = QUOTE})

\* C22: for a line with an odd number of double quotes parseCSVLine returns its fields
\* all the same: the fields are cut at the commas outside quotes that come before the
\* last quote, and every comma after the last quote is in the final field
C22_UnbalancedQuotes ==
    linePc = "done" /\ CountOf(line, QUOTE) % 2 = 1 =>
        LET q == LastQuote(line)
            cuts == {i \in 1..q : line[i] = COMMA
                                   /\ CountOf(SubSeq(line, 1, i - 1), QUOTE) % 2 = 0}
            rest == SubSeq(line, q + 1, Len(line))
        IN  /\ Len(fields) = Cardinality(cuts) + 1
            /\ CountOf(fields[Len(fields)], COMMA) >= CountOf(rest, COMMA)
            /\ fields[Len(fields)] =
                   trim(SelectSeq(SubSeq(line, SetMax(cuts \cup {0}) + 1, Len(line)),
                                  LAMBDA c : c # QUOTE))

\* a,"a,a : the quote is never closed and the comma after it is content
C22_Witness ==
    /\ linePc = "done"
    /\ line = <<"a", COMMA, QUOTE, "a", COMMA, "a">>
    /\ fields = << <<"a">>, <<"a", COMMA, "a">> >>

\* the rows of an id whose latitude and longitude are both numbers and nothing else
RowsWithNumbers(id) ==
    {i \in 1..Len(pageCsvData) :
        /\ Cell(i, MonitoringLocationID) = id
        /\ IsNumericText(Cell(i, MonitoringLocationLatitude))
        /\ IsNumericText(Cell(i, MonitoringLocationLongitude))}

\* C23: every entry of the list of monitoring locations comes from a row whose latitude
\* and longitude are both numbers (not missing, blank, text, or digits followed by
\* text), with those numbers as coordinates and with the row's name, or the id when the
\* row has no name
C23_FiniteCoordinatesOnly ==
    \A p \in 1..Len(monitoringLocations) :
        LET loc == monitoringLocations[p]
            rows == RowsWithNumbers(loc.id)
        IN  /\ rows # {}
            /\ LET first == SetMin(rows)
                   name == Cell(first, MonitoringLocationName)
               IN  /\ loc.lat = Num(DecimalValue(trim(Cell(first, MonitoringLocationLatitude))))
                   /\ loc.lng = Num(DecimalValue(trim(Cell(first, MonitoringLocationLongitude))))
                   /\ loc.name = IF name \in {undefined, <<>>} THEN loc.id ELSE name

\* C24: whenever the file card is shown and no read is in flight, the columns and rows
\* of the upload component are those parsed from the text of selectedFile
C24_CardShowsOwnTable ==
    FileCardShown /\ pending = <<>> =>
        /\ Len(NonBlankLines(selectedFile.content)) >= 1
        /\ columns = ExpectedTable(selectedFile.content).columns
        /\ csvData = ExpectedTable(selectedFile.content).data

\* C25: whenever the page has data, its columns and rows are the ones the upload
\* component holds; after clearFile the page shows nothing of the cleared file
C25_PageAgreesWithUpload ==
    hasData => pageColumns = columns /\ pageCsvData = csvData

\* C26: a selected location id goes with the name the location map has for it, after
\* dropdown changes, marker clicks and loads alike, and the empty option of the
\* dropdown leaves no name (the empty string or undefined)
C26_NameOfSelectedId ==
    /\ selectedLocationId # <<>> => selectedLocationName = locationName(selectedLocationId)
    /\ last.op = "handleLocationIdChange" /\ selectedLocationId = <<>> =>
           ~Truthy(selectedLocationName)

\* C27: the selected location id is empty or a key of the location map, and the
\* selected characteristic is empty or one of the characteristic names
C27_SelectionInCurrentTable ==
    /\ selectedLocationId = <<>> \/ selectedLocationId \in DOMAIN locationNameIdMap
    /\ \/ selectedCharacteristicName = <<>>
       \/ includes(characteristicNames, selectedCharacteristicName)

\* C28: the warning 'Missing Required Columns' is shown only when the header row of
\* the loaded table lacks MonitoringLocationID or MonitoringLocationName
C28_WarningOnlyWhenColumnMissing ==
    MissingColumnsShown =>
        \/ ~includes(pageColumns, MonitoringLocationID)
        \/ ~includes(pageColumns, MonitoringLocationName)

\* C29: an error message is displayed only if the most recently selected file was
\* rejected or its own read failed; so when the read that has just failed is the read
\* of a file other than the selected one, no message is displayed
C29_ErrorOfLatestFileOnly ==
    last.op = "onerror" /\ selectedFile # null /\ last.file # selectedFile =>
        errorMessage = ""

\* C30, as stated: after clearFile, for as long as no new file is selected, no step
\* repopulates the columns and rows of the upload component or fires dataLoaded
C30_ClearCancelsRead ==
    [][selectedFile = null /\ selectedFile' = null =>
           /\ columns' = columns
           /\ csvData' = csvData
           /\ dataLoadedCount' = dataLoadedCount]_vars

\* C30: clearFile does not cancel a read in flight: when a read of a text with a line
\* completes while no file is selected, its table is stored in the upload component
\* and in the page, dataLoaded is fired once, and selectedFile stays null
C30_ReadCompletesAfterClear ==
    [][/\ selectedFile = null
       /\ last'.op = "onload"
       /\ Len(NonBlankLines(last'.file.content)) > 0
       => /\ columns' = ExpectedTable(last'.file.content).columns
          /\ csvData' = ExpectedTable(last'.file.content).data
          /\ dataLoadedCount' = dataLoadedCount + 1
          /\ pageColumns' = columns' /\ pageCsvData' = csvData'
          /\ selectedFile' = null]_vars

\* a file was loaded, a second file was selected, the clear button was pressed, and
\* the read of the second file has completed
C30_Witness ==
    /\ last.op = "onload"
    /\ selectedFile = null
    /\ dataLoadedCount = 2
    /\ columns = ExpectedTable(last.file.content).columns
    /\ Len(columns) > 0

====
